---- MODULE Spec2Model ----
(***************************************************************************)
(* lrt: the live-reloading proxy of src/main.go as a state machine.        *)
(*                                                                         *)
(* Goroutines of the program and where they are modelled:                  *)
(*   request handlers        blockingProxy.ServeHTTP     hpc, leases, resp *)
(*   watcher event pump      rebuildOnChange (for loop)  FsEvent           *)
(*   debounced triggers      debounceCallable closure    gpc "t_*"         *)
(*   timer goroutines        debounceCallable go func    gpc "g_*"         *)
(*   rebuild executions      rebuild                     gpc "r_*"         *)
(*   child reaper / probe    rebuild go funcs            Reap, ProbeOK     *)
(*   stop goroutines         stopRunningService go func  spc               *)
(*   shutdown waiter         rebuildOnChange go func     sdpc              *)
(* Trigger i creates timer i and timer goroutine i, which runs rebuild     *)
(* execution i, which starts child generation i: one index set, Ids.       *)
(***************************************************************************)
EXTENDS Integers, Sequences, FiniteSets, TLC

\* ---------------------------------------------------------------- bounds
\* relevant file-system events delivered in one run
MaxEvents == 2
\* relevant file-system events delivered in one run of Spec
SpecEvents == 1
\* concurrent request handlers
NumHandlers == 2
\* resolution of the clock, in milliseconds
Tick == 100

\* ------------------------------------------------------ program constants
\* debounceCallable(100*time.Millisecond, rebuild)
DebounceInterval == 100

MaxTrig == MaxEvents + 1
Ids == 1..MaxTrig
Handlers == 1..NumHandlers
\* index of the stop goroutine spawned by the shutdown sequence, and the
\* shutdown sequence's name as owner of proxyLock
SdOwner == MaxTrig + 1
Stoppers == 1..SdOwner

VARIABLES
    parent,         \* "running", or why the lrt process ended
    tmpFile,        \* the temporary executable: "present" or "removed"
    events,         \* watcher.Events: the event sent and not yet received
    lockOwner,      \* proxyLock: 0, or who has passed the writer mutex
    lockHeld,       \* proxyLock: the owner holds it exclusively
    leases,         \* proxyLock: shared leases held, per handler
    builtOnce,      \* var builtOnce
    errorResponse,  \* var errorResponse
    service,        \* var service: 0 (nil) or the child generation
    waiter,         \* var waiter (sync.WaitGroup counter)
    watched,        \* var watchedDir
    watcher,        \* var watcher: the watcher.Add calls made, per directory
    child,          \* the child processes, per generation
    exitCh,         \* rebuild's exitCh, per generation
    listeningCh,    \* rebuild's listeningCh, per generation
    probe,          \* the health-probe goroutine, per generation
    timer,          \* debounceCallable's timer: 0 (nil) or a timer
    tm,             \* the time.Timer objects
    ntrig,          \* calls of the debounced trigger so far
    gpc,            \* position of trigger / timer goroutine / rebuild i
    gseen,          \* the timer that trigger / timer goroutine i read
    spc,            \* position of the stop goroutines
    starget,        \* the process a stop goroutine waits for
    sdpc,           \* position of the shutdown goroutine
    hpc,            \* position of each request handler
    hreq,           \* what is known of the request when it starts
    resp,           \* the response a handler has written
    srcVer,         \* relevant source changes delivered so far
    sinceWrite,     \* milliseconds since the last relevant change
    writeReady,     \* the last relevant change hit a Ready, idle controller
    lastOutcome,    \* how the last completed rebuild ended
    lastOutput,     \* the build output of the last failed build
    rebuildsDone,   \* a rebuild has completed
    builtVer        \* the changes in the source the last go build has read

vars == << parent, tmpFile, events, lockOwner, lockHeld, leases, builtOnce, errorResponse,
           service, waiter, watched, watcher, child, exitCh, listeningCh, probe,
           timer, tm, ntrig, gpc, gseen, spc, starget, sdpc, hpc, hreq, resp,
           srcVer, sinceWrite, writeReady, lastOutcome, lastOutput,
           rebuildsDone, builtVer >>

procVars == << parent, tmpFile, events >>
lockVars == << lockOwner, lockHeld, leases >>
watchVars == << watched, watcher >>
ctlVars == << builtOnce, errorResponse, service, waiter, watchVars >>
childVars == << child, exitCh, listeningCh, probe >>
debVars == << timer, tm, ntrig, gseen >>
stopVars == << spc, starget >>
handlerVars == << hpc, hreq, resp >>
timeVars == << srcVer, sinceWrite, writeReady >>
ghostVars == << lastOutcome, lastOutput, rebuildsDone, builtVer >>

\* ------------------------------------------------------------------ bytes
\* A []byte: nil, or a (possibly empty) sequence of tokens.
Nil == [isNil |-> TRUE, bytes |-> << >>]
Bytes(s) == [isNil |-> FALSE, bytes |-> s]

\* exec.Cmd.CombinedOutput returns bytes.Buffer.Bytes(): nil when the
\* command wrote nothing.
CombinedOutput(s) == IF s = << >> THEN Nil ELSE Bytes(s)

HealthCheckURL == "http://localhost:PORT/"

\* generateServiceURL: a free port the kernel hands out; a port is named by
\* the call that drew it, draw 0 being the call in mustParseArgs
generateServiceURL(draw) == [host |-> "localhost", port |-> << "free", draw >>]

\* mustParseArgs without -service: serviceURL = generateServiceURL(listenURL),
\* assigned there and nowhere else
serviceURL == generateServiceURL(0)

\* faulty variant: a port drawn again for every generation
RedrawnPort(g) == generateServiceURL(g).port

\* "PORT=" + serviceURL.Port() in the environment of generation g
ChildPort(g) == serviceURL.port

BootExitText ==
    Bytes(<< "lrt: error: service unexpectedly exited before responding to ",
             HealthCheckURL, "\n",
             "     hint: check the terminal output to see if any errors were logged.\n" >>)

BootTimeoutText ==
    Bytes(<< "lrt: error: service is still not responding on ",
             HealthCheckURL, " after ", "10s", "\n",
             "     hint: ensure your service listens on $PORT. ...\n",
             "           also, check the terminal output to see if any errors were logged.\n" >>)

\* what go build can print when it exits non-zero
BuildOutputs == { << >>, << "override.go:1:14: syntax error" >>, << "undefined: x" >> }


\* ------------------------------------------------------------ file events
\* strings.HasPrefix / strings.HasSuffix on a name held as a token sequence
HasPrefix(s, p) ==
    /\ Len(p) <= Len(s)
    /\ SubSeq(s, 1, Len(p)) = p

HasSuffix(s, p) ==
    /\ Len(p) <= Len(s)
    /\ SubSeq(s, Len(s) - Len(p) + 1, Len(s)) = p

EventNames == { << "override", ".go" >>, << "main", "_test", ".go" >>, << "README", ".md" >> }
\* fsnotify.Op is a set of flags
EventOps == { {"Write"}, {"Chmod"}, {"Write", "Chmod"} }
NoEvent == [name |-> << >>, op |-> {}]

\* faulty variant: a filter that lets the test files through
RelevantWithTests(name, op) ==
    /\ HasSuffix(name, << ".go" >>)
    /\ op # {"Chmod"}

\* the filter of the event pump
Relevant(name, op) ==
    /\ HasSuffix(name, << ".go" >>)
    /\ ~HasSuffix(name, << "_test", ".go" >>)
    /\ op # {"Chmod"}

\* ----------------------------------------------------------- watch graph
ModuleName == "example.com/app"
PackageName == << "." >>
PkgMain == << ModuleName >>
PkgDep == << ModuleName, "/dep" >>
PkgNew == << ModuleName, "/new" >>
PkgFmt == << "fmt" >>
NoiseLine == << "# ", ModuleName >>
EmptyLine == << >>

\* build.Default.Import(p, ".", build.FindOnly): the directory of a package,
\* "" for a package under GOROOT
ResolveDir(p) ==
    CASE p = PackageName -> "app"
      [] p = PkgMain -> "app"
      [] p = PkgDep -> "app/dep"
      [] p = PkgNew -> "app/new"
      [] OTHER -> ""

IsNoise(p) ==
    \/ p = EmptyLine
    \/ HasPrefix(p, << "# " >>)
    \/ HasPrefix(p, << "ld:" >>)
    \/ HasPrefix(p, << "go:" >>)

\* the directories packages resolve to
Dirs == {"app", "app/dep", "app/new"}

\* faulty variant: every listed directory is taken for a new one
NotYetWatched(dir, w) == FALSE

\* watchedDir[dir]
AlreadyWatched(dir, w) == dir \in w

\* watchListedPackages: the watch set after the lines of output are handled
RECURSIVE WatchListed(_, _)
WatchListed(lines, w) ==
    IF lines = << >> THEN w
    ELSE LET p == Head(lines)
             dir == ResolveDir(p)
         IN  IF IsNoise(p) \/ dir = "" \/ AlreadyWatched(dir, w)
             THEN WatchListed(Tail(lines), w)
             ELSE WatchListed(Tail(lines), w \cup {dir})

\* watchListedPackages: the watcher.Add calls made, a on entry, after the
\* lines of output are handled
RECURSIVE AddListed(_, _, _)
AddListed(lines, w, a) ==
    IF lines = << >> THEN a
    ELSE LET p == Head(lines)
             dir == ResolveDir(p)
         IN  IF IsNoise(p) \/ dir = "" \/ AlreadyWatched(dir, w)
             THEN AddListed(Tail(lines), w, a)
             ELSE AddListed(Tail(lines), w \cup {dir},
                            [a EXCEPT ![dir] = @ + 1])

\* what go list -f '{{ join .Deps "\n" }}' and go build -v can print
GoListOutputs == { << PkgDep, PkgFmt >> }
BuildVOutputs == { << NoiseLine, PkgMain, PkgNew >> }

\* ------------------------------------------------------------- proxyLock
\* faulty variant: RLock that does not look at writers
RLockIgnoresWriters == TRUE

\* sync.RWMutex: RLock succeeds unless a writer holds or waits for the lock
CanRLock == lockOwner = 0

\* faulty variant: a writer mutex that is never held
WriterMutexFree == TRUE

\* Lock first takes the writer mutex, which one writer holds at a time
CanLock == lockOwner = 0

NoLeases == \A h \in Handlers : leases[h] = 0

\* Lock returns to the owner of the writer mutex once the readers that were
\* in have left
CanAcquire(who) == lockOwner = who /\ NoLeases

Running == parent = "running"

\* ------------------------------------------------------ request handlers
\* faulty variant: a handler that does not wait for the first build
NeverSpin == FALSE

\* for !builtOnce
MustSpin == ~builtOnce

\* child g accepts connections on port p: it listens on its $PORT
ListensAt(g, p) == child[g].state = "listening" /\ child[g].port = p

\* httputil.ReverseProxy to serviceURL: the answer of a child listening
\* there, or the proxy's own 502 when nothing accepts the connection
Forwarded ==
    LET up == { g \in Ids : ListensAt(g, serviceURL.port) }
    IN  IF up = {}
        THEN { [kind |-> "proxied", status |-> 502, body |-> Nil, gen |-> 0, ver |-> 0] }
        ELSE { [kind |-> "proxied", status |-> 200, body |-> Nil, gen |-> g, ver |-> child[g].ver] : g \in up }

\* if errorResponse != nil { 502 } else proxy
Responses ==
    IF ~errorResponse.isNil
    THEN { [kind |-> "error", status |-> 502, body |-> errorResponse, gen |-> 0, ver |-> 0] }
    ELSE Forwarded

NoResp == [kind |-> "none", status |-> 0, body |-> Nil, gen |-> 0, ver |-> 0]
NoReq == [ver |-> 0, late |-> FALSE, spun |-> FALSE]

\* the controller is in Ready and nothing is pending
ReadyIdle ==
    /\ lastOutcome = "ready"
    /\ lockOwner = 0
    /\ timer = 0
    /\ \A i \in Ids : gpc[i] \in {"unborn", "done"}
    /\ sdpc = "wait"

\* a faulty RUnlock that leaves the shared lease in place
RUnlockKeepsLease(h) == leases

\* proxyLock.RUnlock(): the handler gives back one shared lease
RUnlock(h) == [leases EXCEPT ![h] = @ - 1]

\* a request arrives
HStart(h) ==
    /\ Running
    /\ hpc[h] = "idle"
    /\ hpc' = [hpc EXCEPT ![h] = "rlock"]
    /\ hreq' = [hreq EXCEPT ![h] = [ver |-> srcVer,
                                    late |-> writeReady /\ sinceWrite >= DebounceInterval,
                                    spun |-> FALSE]]
    /\ UNCHANGED << procVars, lockVars, ctlVars, childVars, debVars, gpc, stopVars,
                    sdpc, resp, timeVars, ghostVars >>

\* proxyLock.RLock()
HRLock(h) ==
    /\ Running
    /\ hpc[h] = "rlock"
    /\ CanRLock
    /\ leases' = [leases EXCEPT ![h] = @ + 1]
    /\ hpc' = [hpc EXCEPT ![h] = "held"]
    /\ UNCHANGED << procVars, lockOwner, lockHeld, ctlVars, childVars, debVars, gpc,
                    stopVars, sdpc, hreq, resp, timeVars, ghostVars >>

\* for !builtOnce { proxyLock.RUnlock(); time.Sleep(...)
HSpin(h) ==
    /\ Running
    /\ hpc[h] = "held"
    /\ MustSpin
    /\ leases' = RUnlock(h)
    /\ hpc' = [hpc EXCEPT ![h] = "sleep"]
    /\ hreq' = [hreq EXCEPT ![h].spun = TRUE]
    /\ UNCHANGED << procVars, lockOwner, lockHeld, ctlVars, childVars, debVars, gpc,
                    stopVars, sdpc, resp, timeVars, ghostVars >>

\* ... the sleep ends; proxyLock.RLock() follows }
HWake(h) ==
    /\ Running
    /\ hpc[h] = "sleep"
    /\ hpc' = [hpc EXCEPT ![h] = "rlock"]
    /\ UNCHANGED << procVars, lockVars, ctlVars, childVars, debVars, gpc, stopVars,
                    sdpc, hreq, resp, timeVars, ghostVars >>

\* the 502 with errorResponse, or b.proxy.ServeHTTP(w, r)
HServe(h) ==
    /\ Running
    /\ hpc[h] = "held"
    /\ ~MustSpin
    /\ \E r \in Responses : resp' = [resp EXCEPT ![h] = r]
    /\ hpc' = [hpc EXCEPT ![h] = "served"]
    /\ UNCHANGED << procVars, lockVars, ctlVars, childVars, debVars, gpc, stopVars,
                    sdpc, hreq, timeVars, ghostVars >>

\* return: the deferred proxyLock.RUnlock()
HReturn(h) ==
    /\ Running
    /\ hpc[h] = "served"
    /\ leases' = RUnlock(h)
    /\ hpc' = [hpc EXCEPT ![h] = "idle"]
    /\ hreq' = [hreq EXCEPT ![h] = NoReq]
    /\ resp' = [resp EXCEPT ![h] = NoResp]
    /\ UNCHANGED << procVars, lockOwner, lockHeld, ctlVars, childVars, debVars, gpc,
                    stopVars, sdpc, timeVars, ghostVars >>


\* --------------------------------------------------------------- the clock
Max(a, b) == IF a > b THEN a ELSE b
Min(a, b) == IF a < b THEN a ELSE b

NoTimer == [armed |-> FALSE, remaining |-> 0, chan |-> FALSE]

\* ------------------------------------------------------- the process ends
\* os.Exit or a panic: the goroutines and the variables of the process end
\* with it; the child processes it started stay as they are, and so does
\* the temporary executable, since the deferred os.Remove of main runs only
\* when main returns
Exit(cause) ==
    /\ parent' = cause
    /\ tmpFile' = tmpFile
    /\ events' = NoEvent
    /\ child' = child
    /\ lockOwner' = 0
    /\ lockHeld' = FALSE
    /\ leases' = [h \in Handlers |-> 0]
    /\ builtOnce' = FALSE
    /\ errorResponse' = Nil
    /\ service' = 0
    /\ waiter' = 0
    /\ watched' = {}
    /\ watcher' = [d \in Dirs |-> 0]
    /\ exitCh' = [g \in Ids |-> FALSE]
    /\ listeningCh' = [g \in Ids |-> FALSE]
    /\ probe' = [g \in Ids |-> "none"]
    /\ timer' = 0
    /\ tm' = [t \in Ids |-> NoTimer]
    /\ ntrig' = 0
    /\ gpc' = [i \in Ids |-> "unborn"]
    /\ gseen' = [i \in Ids |-> 0]
    /\ spc' = [s \in Stoppers |-> "none"]
    /\ starget' = [s \in Stoppers |-> 0]
    /\ sdpc' = "wait"
    /\ hpc' = [h \in Handlers |-> "idle"]
    /\ hreq' = [h \in Handlers |-> NoReq]
    /\ resp' = [h \in Handlers |-> NoResp]
    /\ srcVer' = 0
    /\ sinceWrite' = DebounceInterval
    /\ writeReady' = FALSE
    /\ lastOutcome' = "none"
    /\ lastOutput' = << >>
    /\ rebuildsDone' = FALSE
    /\ builtVer' = 0

\* time.NewTimer(interval), timer.Reset(interval): armed, interval to run
Armed(t) == [t EXCEPT !.armed = TRUE, !.remaining = DebounceInterval]

\* time passes: armed timers run down, none fires early
TickStep ==
    /\ Running
    /\ \/ sinceWrite < DebounceInterval
       \/ \E t \in Ids : tm[t].armed /\ tm[t].remaining > 0
    /\ sinceWrite' = Min(sinceWrite + Tick, DebounceInterval)
    /\ tm' = [t \in Ids |->
                IF tm[t].armed
                THEN [tm[t] EXCEPT !.remaining = Max(@ - Tick, 0)]
                ELSE tm[t]]
    /\ UNCHANGED << procVars, lockVars, ctlVars, childVars, timer, ntrig, gseen, gpc,
                    stopVars, sdpc, handlerVars, srcVer, writeReady, ghostVars >>

\* the runtime fires an expired timer: a value on timer.C (buffer of one)
TimerFire(t) ==
    /\ Running
    /\ tm[t].armed
    /\ tm[t].remaining = 0
    /\ tm' = [tm EXCEPT ![t].armed = FALSE, ![t].chan = TRUE]
    /\ UNCHANGED << procVars, lockVars, ctlVars, childVars, timer, ntrig, gseen, gpc,
                    stopVars, sdpc, handlerVars, timeVars, ghostVars >>

\* ------------------------------------------------------- the event pump
\* case ev := <-watcher.Events: a relevant event calls go rebuilder()
PumpEvent(name, op) ==
    /\ Running
    /\ watched # {}
    /\ IF Relevant(name, op)
       THEN /\ ntrig < MaxTrig
            /\ ntrig' = ntrig + 1
            /\ gpc' = [gpc EXCEPT ![ntrig + 1] = "t_read"]
            /\ srcVer' = srcVer + 1
            /\ sinceWrite' = 0
            /\ writeReady' = ReadyIdle
       ELSE UNCHANGED << ntrig, gpc, srcVer, sinceWrite, writeReady >>
    /\ UNCHANGED << parent, tmpFile, lockVars, ctlVars, childVars, timer, tm, gseen,
                    stopVars, sdpc, handlerVars, ghostVars >>

\* an event is sent and received in one step
FsEvent(name, op) ==
    /\ events = NoEvent
    /\ PumpEvent(name, op)
    /\ UNCHANGED events

\* fsnotify sends an event on watcher.Events
Deliver(name, op) ==
    /\ Running
    /\ watched # {}
    /\ events = NoEvent
    /\ events' = [name |-> name, op |-> op]
    /\ UNCHANGED << parent, tmpFile, lockVars, ctlVars, childVars, debVars, gpc,
                    stopVars, sdpc, handlerVars, timeVars, ghostVars >>

\* case ev := <-watcher.Events
Receive ==
    /\ events # NoEvent
    /\ PumpEvent(events.name, events.op)
    /\ events' = NoEvent

\* case err := <-watcher.Errors: os.Exit(1)
WatcherError ==
    /\ Running
    /\ Exit("fatal_watcher")

\* ------------------------------------------------------------ debouncer
\* a nil pointer dereference ends the process
Panic == Exit("panic")

\* timer.Reset on a nil *time.Timer: the same, in the trigger call
PanicInReset == Exit("panic_reset")

\* if timer == nil
TrigRead(i) ==
    /\ Running
    /\ gpc[i] = "t_read"
    /\ gseen' = [gseen EXCEPT ![i] = timer]
    /\ gpc' = [gpc EXCEPT ![i] = IF timer = 0 THEN "t_arm" ELSE "t_reset"]
    /\ UNCHANGED << procVars, lockVars, ctlVars, childVars, timer, tm, ntrig,
                    stopVars, sdpc, handlerVars, timeVars, ghostVars >>

\* timer = time.NewTimer(interval); go func() { ... }()
TrigArm(i) ==
    /\ Running
    /\ gpc[i] = "t_arm"
    /\ timer' = i
    /\ tm' = [tm EXCEPT ![i] = Armed(NoTimer)]
    /\ gseen' = [gseen EXCEPT ![i] = 0]
    /\ gpc' = [gpc EXCEPT ![i] = "g_start"]
    /\ UNCHANGED << procVars, lockVars, ctlVars, childVars, ntrig,
                    stopVars, sdpc, handlerVars, timeVars, ghostVars >>

\* the timers timer.Reset(interval) can act on: timer is read again after the
\* nil check without synchronisation, so it is the value the check saw or
\* the value the variable holds now
ResetTargets(i) == { gseen[i], timer }

\* else { timer.Reset(interval) }
TrigReset(i) ==
    /\ Running
    /\ gpc[i] = "t_reset"
    /\ \E t \in ResetTargets(i) :
          IF t = 0
          THEN PanicInReset
          ELSE /\ tm' = [tm EXCEPT ![t] = Armed(@)]
               /\ gseen' = [gseen EXCEPT ![i] = 0]
               /\ gpc' = [gpc EXCEPT ![i] = "done"]
               /\ UNCHANGED << procVars, lockVars, ctlVars, childVars, timer, ntrig,
                               stopVars, sdpc, handlerVars, timeVars, ghostVars >>

\* <-timer.C: the goroutine reads timer when it runs and blocks on its channel
GStart(i) ==
    /\ Running
    /\ gpc[i] = "g_start"
    /\ IF timer = 0
       THEN Panic
       ELSE /\ gseen' = [gseen EXCEPT ![i] = timer]
            /\ gpc' = [gpc EXCEPT ![i] = "g_wait"]
            /\ UNCHANGED << procVars, lockVars, ctlVars, childVars, timer, tm, ntrig,
                            stopVars, sdpc, handlerVars, timeVars, ghostVars >>

\* ... the receive
GRecv(i) ==
    /\ Running
    /\ gpc[i] = "g_wait"
    /\ tm[gseen[i]].chan
    /\ tm' = [tm EXCEPT ![gseen[i]].chan = FALSE]
    /\ gseen' = [gseen EXCEPT ![i] = 0]
    /\ gpc' = [gpc EXCEPT ![i] = "g_stop"]
    /\ UNCHANGED << procVars, lockVars, ctlVars, childVars, timer, ntrig,
                    stopVars, sdpc, handlerVars, timeVars, ghostVars >>

\* timer.Stop()
GStop(i) ==
    /\ Running
    /\ gpc[i] = "g_stop"
    /\ IF timer = 0
       THEN Panic
       ELSE /\ tm' = [tm EXCEPT ![timer].armed = FALSE]
            /\ gpc' = [gpc EXCEPT ![i] = "g_nil"]
            /\ UNCHANGED << procVars, lockVars, ctlVars, childVars, timer, ntrig, gseen,
                            stopVars, sdpc, handlerVars, timeVars, ghostVars >>

\* timer = nil; f() follows
GNil(i) ==
    /\ Running
    /\ gpc[i] = "g_nil"
    /\ timer' = 0
    /\ gpc' = [gpc EXCEPT ![i] = "r_lock"]
    /\ UNCHANGED << procVars, lockVars, ctlVars, childVars, tm, ntrig, gseen,
                    stopVars, sdpc, handlerVars, timeVars, ghostVars >>


\* ------------------------------------------------------ child processes
NoChild == [state |-> "none", ver |-> 0, sig |-> "none", port |-> << >>]
Alive(g) == child[g].state \in {"booting", "listening"}
Gone(g) == child[g].state \in {"exited", "reaped"}

\* faulty variant: signals that are never delivered
NotSignalled(c, sig) == c

\* Process.Signal / Process.Kill: an error, ignored, once the process is gone
Signalled(c, sig) == IF c.state \in {"booting", "listening"} THEN [c EXCEPT !.sig = sig] ELSE c

\* stopRunningService, called by who: SIGTERM to the current child, and a
\* goroutine that kills it after the grace period
StopRunningService(who) ==
    IF service # 0
    THEN /\ child' = [child EXCEPT ![service] = Signalled(@, "term")]
         /\ spc' = [spc EXCEPT ![who] = "g1"]
    ELSE UNCHANGED << child, spc >>

\* exitCh and listeningCh of generation g are local to its rebuild: a value
\* sent after the select has returned is never received, and is not kept
Receiving(g) == gpc[g] = "r_select"

\* the child starts to accept connections
ChildListen(g) ==
    /\ Running
    /\ child[g].state = "booting"
    /\ child' = [child EXCEPT ![g].state = "listening"]
    /\ UNCHANGED << procVars, lockVars, ctlVars, exitCh, listeningCh, probe, debVars,
                    gpc, stopVars, sdpc, handlerVars, timeVars, ghostVars >>

\* the child process ends: by itself, on SIGTERM or on SIGKILL
ChildExit(g) ==
    /\ Running
    /\ Alive(g)
    /\ child' = [child EXCEPT ![g] = [NoChild EXCEPT !.state = "exited"]]
    /\ UNCHANGED << procVars, lockVars, ctlVars, exitCh, listeningCh, probe, debVars,
                    gpc, stopVars, sdpc, handlerVars, timeVars, ghostVars >>

\* go func() { defer waiter.Done(); service.Wait(); exitCh <- true }()
Reap(g) ==
    /\ Running
    /\ child[g].state = "exited"
    /\ child' = [child EXCEPT ![g].state = "reaped"]
    /\ exitCh' = [exitCh EXCEPT ![g] = Receiving(g)]
    /\ waiter' = waiter - 1
    /\ UNCHANGED << procVars, lockVars, builtOnce, errorResponse, service, watchVars,
                    listeningCh, probe, debVars, gpc, stopVars, sdpc, handlerVars,
                    timeVars, ghostVars >>

\* the probe loop of generation g gets a 2xx from whatever listens on the
\* service address: listeningCh <- true
ProbeOK(g) ==
    /\ Running
    /\ probe[g] = "loop"
    /\ \E c \in Ids : ListensAt(c, serviceURL.port)
    /\ probe' = [probe EXCEPT ![g] = "none"]
    /\ listeningCh' = [listeningCh EXCEPT ![g] = Receiving(g)]
    /\ UNCHANGED << procVars, lockVars, ctlVars, child, exitCh, debVars, gpc,
                    stopVars, sdpc, handlerVars, timeVars, ghostVars >>

\* ------------------------------------------------------ stop goroutines
\* the inner goroutine runs service.Process.Wait(): it reads service then
StopWatch(s) ==
    /\ Running
    /\ spc[s] = "g1"
    /\ starget' = [starget EXCEPT ![s] = service]
    /\ spc' = [spc EXCEPT ![s] = "wait"]
    /\ UNCHANGED << procVars, lockVars, ctlVars, childVars, debVars, gpc, sdpc,
                    handlerVars, timeVars, ghostVars >>

\* case <-deadChan
StopDead(s) ==
    /\ Running
    /\ spc[s] = "wait"
    /\ Gone(starget[s])
    /\ spc' = [spc EXCEPT ![s] = "none"]
    /\ starget' = [starget EXCEPT ![s] = 0]
    /\ UNCHANGED << procVars, lockVars, ctlVars, childVars, debVars, gpc,
                    sdpc, handlerVars, timeVars, ghostVars >>

\* case <-time.After(10 * time.Second): service.Process.Kill(), on the
\* process service names then
StopGrace(s) ==
    /\ Running
    /\ spc[s] \in {"g1", "wait"}
    /\ child' = [child EXCEPT ![service] = Signalled(@, "kill")]
    /\ starget' = [starget EXCEPT ![s] = service]
    /\ spc' = [spc EXCEPT ![s] = "killed"]
    /\ UNCHANGED << procVars, lockVars, ctlVars, exitCh, listeningCh, probe, debVars,
                    gpc, sdpc, handlerVars, timeVars, ghostVars >>

\* ... service.Process.Wait()
StopKilled(s) ==
    /\ Running
    /\ spc[s] = "killed"
    /\ Gone(starget[s])
    /\ spc' = [spc EXCEPT ![s] = "none"]
    /\ starget' = [starget EXCEPT ![s] = 0]
    /\ UNCHANGED << procVars, lockVars, ctlVars, childVars, debVars, gpc,
                    sdpc, handlerVars, timeVars, ghostVars >>


\* ---------------------------------------------------------------- rebuild
Unlock ==
    /\ lockOwner' = 0
    /\ lockHeld' = FALSE

\* proxyLock.Lock(), first half: the writer mutex
RLockW(i) ==
    /\ Running
    /\ gpc[i] = "r_lock"
    /\ CanLock
    /\ lockOwner' = i
    /\ gpc' = [gpc EXCEPT ![i] = "r_drain"]
    /\ UNCHANGED << procVars, lockHeld, leases, ctlVars, childVars, debVars, stopVars,
                    sdpc, handlerVars, timeVars, ghostVars >>

\* proxyLock.Lock(), second half: the readers have left
RAcquire(i) ==
    /\ Running
    /\ gpc[i] = "r_drain"
    /\ CanAcquire(i)
    /\ lockHeld' = TRUE
    /\ gpc' = [gpc EXCEPT ![i] = "r_prep"]
    /\ UNCHANGED << procVars, lockOwner, leases, ctlVars, childVars, debVars, stopVars,
                    sdpc, handlerVars, timeVars, ghostVars >>

\* if !builtOnce || errorResponse != nil
NeedsFullList == ~builtOnce \/ ~errorResponse.isNil

\* faulty variant: rebuild leaves the error of the rebuild before in place
ErrorNotCleared == errorResponse

\* errorResponse = nil
ClearedError == Nil

\* the head of rebuild under the lock: go list and the two
\* watchListedPackages calls when the full list is needed (go list fails, a
\* package does not resolve or watcher.Add fails: os.Exit); then
\* builtOnce = true; errorResponse = nil; stopRunningService()
RPrep(i) ==
    /\ Running
    /\ gpc[i] = "r_prep"
    /\ \/ /\ NeedsFullList
          /\ \E cause \in {"fatal_list", "fatal_watch"} : Exit(cause)
       \/ /\ IF NeedsFullList
             THEN \E out \in GoListOutputs :
                     /\ watched' = WatchListed(out, WatchListed(<< PackageName >>, watched))
                     /\ watcher' = AddListed(out, WatchListed(<< PackageName >>, watched),
                                             AddListed(<< PackageName >>, watched, watcher))
             ELSE UNCHANGED watchVars
          /\ builtOnce' = TRUE
          /\ errorResponse' = ClearedError
          /\ StopRunningService(i)
          /\ gpc' = [gpc EXCEPT ![i] = "r_build"]
          /\ lastOutcome' = "running"
          /\ lastOutput' = << >>
          /\ UNCHANGED << procVars, lockVars, service, waiter, exitCh, listeningCh, probe,
                          debVars, starget, sdpc, handlerVars, timeVars, rebuildsDone,
                          builtVer >>

\* errorResponse = output
ErrorAfterBuild(out) == CombinedOutput(out)

\* go build: it fails with output (errorResponse, return), cannot be run
\* (os.Exit), or succeeds on the source as it is now; then
\* watchListedPackages(output), which can end the process
RBuild(i) ==
    /\ Running
    /\ gpc[i] = "r_build"
    /\ \/ /\ \E out \in BuildOutputs :
                /\ errorResponse' = ErrorAfterBuild(out)
                /\ lastOutput' = out
          /\ lastOutcome' = "buildfail"
          /\ rebuildsDone' = TRUE
          /\ builtVer' = srcVer
          /\ Unlock
          /\ gpc' = [gpc EXCEPT ![i] = "done"]
          /\ UNCHANGED << procVars, watchVars, child, leases, builtOnce, service, waiter,
                          exitCh, listeningCh, probe, debVars, stopVars, sdpc,
                          handlerVars, timeVars >>
       \/ \E cause \in {"fatal_build", "fatal_watch"} : Exit(cause)
       \/ /\ \E out \in BuildVOutputs :
                /\ watched' = WatchListed(out, watched)
                /\ watcher' = AddListed(out, watched, watcher)
          /\ child' = [child EXCEPT ![i].ver = srcVer]
          /\ gpc' = [gpc EXCEPT ![i] = "r_wait"]
          /\ builtVer' = srcVer
          /\ UNCHANGED << procVars, lockOwner, lockHeld, errorResponse, lastOutcome,
                          lastOutput, rebuildsDone,
                          leases, builtOnce, service, waiter, exitCh, listeningCh,
                          probe, debVars, stopVars, sdpc, handlerVars, timeVars >>

\* faulty variant: rebuild does not wait for the child before
StartWithoutWait == TRUE

\* waiter.Wait()
CanStartChild == waiter = 0

\* waiter.Wait(); service = exec.Command(...); service.Start() (os.Exit when
\* it fails); waiter.Add(1); the reaper and the probe goroutines
RStart(i) ==
    /\ Running
    /\ gpc[i] = "r_wait"
    /\ CanStartChild
    /\ \/ Exit("fatal_start")
       \/ /\ service' = i
          /\ child' = [child EXCEPT ![i].state = "booting", ![i].port = ChildPort(i)]
          /\ waiter' = waiter + 1
          /\ probe' = [probe EXCEPT ![i] = "loop"]
          /\ gpc' = [gpc EXCEPT ![i] = "r_select"]
          /\ UNCHANGED << procVars, lockVars, builtOnce, errorResponse, watchVars, exitCh,
                          listeningCh, debVars, stopVars, sdpc, handlerVars, timeVars,
                          ghostVars >>

\* the cases of the select that can be taken: a channel that holds a value,
\* or the health-check timeout when neither does
SelectCases(i) ==
    LET ready == (IF exitCh[i] THEN {"exit"} ELSE {}) \cup
                 (IF listeningCh[i] THEN {"listening"} ELSE {})
    IN  IF ready = {} THEN {"timeout"} ELSE ready

\* faulty variant: the texts of the exit and the timeout case exchanged
SelectTextsSwapped(c) ==
    CASE c = "exit" -> BootTimeoutText
      [] c = "timeout" -> BootExitText
      [] OTHER -> errorResponse

\* faulty variant: a select that never touches errorResponse
SelectKeepsError(c) == errorResponse

\* what each case of the select leaves in errorResponse
ErrorAfterSelect(c) ==
    CASE c = "exit" -> BootExitText
      [] c = "timeout" -> BootTimeoutText
      [] OTHER -> errorResponse

OutcomeOf(c) ==
    CASE c = "exit" -> "bootexit"
      [] c = "timeout" -> "timeout"
      [] OTHER -> "ready"

\* select { case <-exitCh | case <-time.After(*timeoutFlag) | case <-listeningCh }
\* and the deferred proxyLock.Unlock()
RSelect(i) ==
    /\ Running
    /\ gpc[i] = "r_select"
    /\ \E c \in SelectCases(i) :
          /\ errorResponse' = ErrorAfterSelect(c)
          /\ lastOutcome' = OutcomeOf(c)
    /\ exitCh' = [exitCh EXCEPT ![i] = FALSE]
    /\ listeningCh' = [listeningCh EXCEPT ![i] = FALSE]
    /\ rebuildsDone' = TRUE
    /\ Unlock
    /\ gpc' = [gpc EXCEPT ![i] = "done"]
    /\ UNCHANGED << procVars, leases, builtOnce, service, waiter, watchVars, child, probe,
                    debVars, stopVars, sdpc, handlerVars, timeVars, lastOutput, builtVer >>

\* --------------------------------------------------------------- shutdown
\* <-shutdownCh: SIGTERM or SIGINT arrived
SdSignal ==
    /\ Running
    /\ sdpc = "wait"
    /\ sdpc' = "lock"
    /\ UNCHANGED << procVars, lockVars, ctlVars, childVars, debVars, gpc, stopVars,
                    handlerVars, timeVars, ghostVars >>

\* proxyLock.Lock(), first half
SdLockW ==
    /\ Running
    /\ sdpc = "lock"
    /\ CanLock
    /\ lockOwner' = SdOwner
    /\ sdpc' = "drain"
    /\ UNCHANGED << procVars, lockHeld, leases, ctlVars, childVars, debVars, gpc,
                    stopVars, handlerVars, timeVars, ghostVars >>

\* proxyLock.Lock(), second half; stopRunningService()
SdStop ==
    /\ Running
    /\ sdpc = "drain"
    /\ CanAcquire(SdOwner)
    /\ lockHeld' = TRUE
    /\ StopRunningService(SdOwner)
    /\ sdpc' = "waitgroup"
    /\ UNCHANGED << procVars, lockOwner, leases, ctlVars, exitCh, listeningCh, probe,
                    debVars, gpc, starget, handlerVars, timeVars, ghostVars >>

\* faulty variant: shutdown that does not wait for the child
ExitWithoutWait == TRUE

\* waiter.Wait() of the shutdown sequence returns
CanExit == waiter = 0

\* waiter.Wait(); os.Exit(0)
SdExit ==
    /\ Running
    /\ sdpc = "waitgroup"
    /\ CanExit
    /\ Exit("exit0")

\* ------------------------------------------------------------------- runs
\* main after mustParseArgs: go rebuildOnChange() has called go rebuilder()
Init ==
    /\ parent = "running"
    /\ tmpFile = "present"
    /\ events = NoEvent
    /\ lockOwner = 0
    /\ lockHeld = FALSE
    /\ leases = [h \in Handlers |-> 0]
    /\ builtOnce = FALSE
    /\ errorResponse = Nil
    /\ service = 0
    /\ waiter = 0
    /\ watched = {}
    /\ watcher = [d \in Dirs |-> 0]
    /\ child = [g \in Ids |-> NoChild]
    /\ exitCh = [g \in Ids |-> FALSE]
    /\ listeningCh = [g \in Ids |-> FALSE]
    /\ probe = [g \in Ids |-> "none"]
    /\ timer = 0
    /\ tm = [t \in Ids |-> NoTimer]
    /\ ntrig = 1
    /\ gpc = [i \in Ids |-> IF i = 1 THEN "t_read" ELSE "unborn"]
    /\ gseen = [i \in Ids |-> 0]
    /\ spc = [s \in Stoppers |-> "none"]
    /\ starget = [s \in Stoppers |-> 0]
    /\ sdpc = "wait"
    /\ hpc = [h \in Handlers |-> "idle"]
    /\ hreq = [h \in Handlers |-> NoReq]
    /\ resp = [h \in Handlers |-> NoResp]
    /\ srcVer = 0
    /\ sinceWrite = DebounceInterval
    /\ writeReady = FALSE
    /\ lastOutcome = "none"
    /\ lastOutput = << >>
    /\ rebuildsDone = FALSE
    /\ builtVer = 0

Next ==
    \/ \E h \in Handlers : HStart(h)
    \/ \E h \in Handlers : HRLock(h)
    \/ \E h \in Handlers : HSpin(h)
    \/ \E h \in Handlers : HWake(h)
    \/ \E h \in Handlers : HServe(h)
    \/ \E h \in Handlers : HReturn(h)
    \/ TickStep
    \/ \E t \in Ids : TimerFire(t)
    \/ \E name \in EventNames, op \in EventOps : ntrig <= SpecEvents /\ FsEvent(name, op)
    \/ WatcherError
    \/ \E i \in Ids : TrigRead(i)
    \/ \E i \in Ids : TrigArm(i)
    \/ \E i \in Ids : GStart(i)
    \/ \E i \in Ids : GRecv(i)
    \/ \E i \in Ids : GStop(i)
    \/ \E i \in Ids : GNil(i)
    \/ \E i \in Ids : RLockW(i)
    \/ \E i \in Ids : RAcquire(i)
    \/ \E i \in Ids : RPrep(i)
    \/ \E i \in Ids : RBuild(i)
    \/ \E i \in Ids : RStart(i)
    \/ \E i \in Ids : RSelect(i)
    \/ \E g \in Ids : ChildListen(g)
    \/ \E g \in Ids : ChildExit(g)
    \/ \E g \in Ids : Reap(g)
    \/ \E g \in Ids : ProbeOK(g)
    \/ \E s \in Stoppers : StopWatch(s)
    \/ \E s \in Stoppers : StopDead(s)
    \/ \E s \in Stoppers : StopGrace(s)
    \/ \E s \in Stoppers : StopKilled(s)
    \/ SdSignal
    \/ SdLockW
    \/ SdStop
    \/ SdExit

\* all goroutines, with the first relevant change only: a trigger that
\* follows the initial one always finds timer == nil, so the else branch of
\* debounceCallable cannot be reached here and is left to ChainSpec
Spec == Init /\ [][Next]_vars


\* the proxy without requests: every relevant change of the run is delivered,
\* so that triggers meet a live timer (the else branch of debounceCallable)

ChainNext ==
    \/ TickStep
    \/ \E t \in Ids : TimerFire(t)
    \/ \E name \in EventNames, op \in EventOps : FsEvent(name, op)
    \/ \E i \in Ids : TrigRead(i)
    \/ \E i \in Ids : TrigArm(i)
    \/ \E i \in Ids : TrigReset(i)
    \/ \E i \in Ids : GStart(i)
    \/ \E i \in Ids : GRecv(i)
    \/ \E i \in Ids : GStop(i)
    \/ \E i \in Ids : GNil(i)
    \/ \E i \in Ids : RLockW(i)
    \/ \E i \in Ids : RAcquire(i)
    \/ \E i \in Ids : RPrep(i)
    \/ \E i \in Ids : RBuild(i)
    \/ \E i \in Ids : RStart(i)
    \/ \E i \in Ids : RSelect(i)
    \/ \E g \in Ids : ChildListen(g)
    \/ \E g \in Ids : ChildExit(g)
    \/ \E g \in Ids : Reap(g)
    \/ \E g \in Ids : ProbeOK(g)
    \/ \E s \in Stoppers : StopWatch(s)
    \/ \E s \in Stoppers : StopDead(s)
    \/ \E s \in Stoppers : StopGrace(s)
    \/ \E s \in Stoppers : StopKilled(s)
    \/ WatcherError
    \/ SdSignal
    \/ SdLockW
    \/ SdStop
    \/ SdExit

ChainSpec == Init /\ [][ChainNext]_vars


\* timer goroutine i has called f(): rebuild execution i waits for
\* proxyLock or is running
Called(i) == gpc[i] \in {"r_lock", "r_drain", "r_prep", "r_build", "r_wait", "r_select"}

\* a change signal of a burst: no rebuild has been called and not finished,
\* and the signal before, if any, came less than the debounce interval ago
QuietArrival ==
    /\ \A i \in Ids : ~Called(i)
    /\ srcVer >= 1 => sinceWrite < DebounceInterval

\* the proxy without requests and signals, where the watcher delivers the
\* changes as one burst outside of any rebuild
BurstNext ==
    \/ TickStep
    \/ \E t \in Ids : TimerFire(t)
    \/ \E name \in EventNames, op \in EventOps : QuietArrival /\ FsEvent(name, op)
    \/ \E i \in Ids : TrigRead(i)
    \/ \E i \in Ids : TrigArm(i)
    \/ \E i \in Ids : TrigReset(i)
    \/ \E i \in Ids : GStart(i)
    \/ \E i \in Ids : GRecv(i)
    \/ \E i \in Ids : GStop(i)
    \/ \E i \in Ids : GNil(i)
    \/ \E i \in Ids : RLockW(i)
    \/ \E i \in Ids : RAcquire(i)
    \/ \E i \in Ids : RPrep(i)
    \/ \E i \in Ids : RBuild(i)
    \/ \E i \in Ids : RStart(i)
    \/ \E i \in Ids : RSelect(i)
    \/ \E g \in Ids : ChildListen(g)
    \/ \E g \in Ids : ChildExit(g)
    \/ \E g \in Ids : Reap(g)
    \/ \E g \in Ids : ProbeOK(g)
    \/ \E s \in Stoppers : StopWatch(s)
    \/ \E s \in Stoppers : StopDead(s)
    \/ \E s \in Stoppers : StopGrace(s)
    \/ \E s \in Stoppers : StopKilled(s)

BurstSpec == Init /\ [][BurstNext]_vars

\* the debounced trigger is being called for signal i
InTrigger(i) == gpc[i] \in {"t_read", "t_arm", "t_reset"}

\* a change signal that arrives while a rebuild is executing, after the
\* trigger call for the signal before has returned
DuringArrival ==
    /\ \E i \in Ids : gpc[i] \in {"r_prep", "r_build", "r_wait", "r_select"}
    /\ \A i \in Ids : ~InTrigger(i)

\* the proxy without requests and signals, where the watcher delivers
\* changes only while a rebuild is executing
DuringNext ==
    \/ TickStep
    \/ \E t \in Ids : TimerFire(t)
    \/ \E name \in EventNames, op \in EventOps : DuringArrival /\ FsEvent(name, op)
    \/ \E i \in Ids : TrigRead(i)
    \/ \E i \in Ids : TrigArm(i)
    \/ \E i \in Ids : TrigReset(i)
    \/ \E i \in Ids : GStart(i)
    \/ \E i \in Ids : GRecv(i)
    \/ \E i \in Ids : GStop(i)
    \/ \E i \in Ids : GNil(i)
    \/ \E i \in Ids : RLockW(i)
    \/ \E i \in Ids : RAcquire(i)
    \/ \E i \in Ids : RPrep(i)
    \/ \E i \in Ids : RBuild(i)
    \/ \E i \in Ids : RStart(i)
    \/ \E i \in Ids : RSelect(i)
    \/ \E g \in Ids : ChildListen(g)
    \/ \E g \in Ids : ChildExit(g)
    \/ \E g \in Ids : Reap(g)
    \/ \E g \in Ids : ProbeOK(g)
    \/ \E s \in Stoppers : StopWatch(s)
    \/ \E s \in Stoppers : StopDead(s)
    \/ \E s \in Stoppers : StopGrace(s)
    \/ \E s \in Stoppers : StopKilled(s)

DuringSpec == Init /\ [][DuringNext]_vars

\* the proxy without requests and signals, where sending an event and
\* receiving it are two steps; the first relevant change only
FilterNext ==
    \/ TickStep
    \/ \E t \in Ids : TimerFire(t)
    \/ \E name \in EventNames, op \in EventOps : ntrig <= SpecEvents /\ Deliver(name, op)
    \/ Receive
    \/ \E i \in Ids : TrigRead(i)
    \/ \E i \in Ids : TrigArm(i)
    \/ \E i \in Ids : GStart(i)
    \/ \E i \in Ids : GRecv(i)
    \/ \E i \in Ids : GStop(i)
    \/ \E i \in Ids : GNil(i)
    \/ \E i \in Ids : RLockW(i)
    \/ \E i \in Ids : RAcquire(i)
    \/ \E i \in Ids : RPrep(i)
    \/ \E i \in Ids : RBuild(i)
    \/ \E i \in Ids : RStart(i)
    \/ \E i \in Ids : RSelect(i)
    \/ \E g \in Ids : ChildListen(g)
    \/ \E g \in Ids : ChildExit(g)
    \/ \E g \in Ids : Reap(g)
    \/ \E g \in Ids : ProbeOK(g)
    \/ \E s \in Stoppers : StopWatch(s)
    \/ \E s \in Stoppers : StopDead(s)
    \/ \E s \in Stoppers : StopGrace(s)
    \/ \E s \in Stoppers : StopKilled(s)

FilterSpec == Init /\ [][FilterNext]_vars

\* one handler and a single change after the initial build; the scheduler
\* runs every goroutine that can run, timers fire, the clock advances and a
\* killed process ends; requests, the change, the shutdown signal and a
\* watcher error may or may not come
LiveHandlers == {1}

LiveStep ==
    \/ \E h \in LiveHandlers : HRLock(h)
    \/ \E h \in LiveHandlers : HSpin(h)
    \/ \E h \in LiveHandlers : HWake(h)
    \/ \E h \in LiveHandlers : HServe(h)
    \/ \E h \in LiveHandlers : HReturn(h)
    \/ TickStep
    \/ \E t \in Ids : TimerFire(t)
    \/ \E i \in Ids : TrigRead(i)
    \/ \E i \in Ids : TrigArm(i)
    \/ \E i \in Ids : GStart(i)
    \/ \E i \in Ids : GRecv(i)
    \/ \E i \in Ids : GStop(i)
    \/ \E i \in Ids : GNil(i)
    \/ \E i \in Ids : RLockW(i)
    \/ \E i \in Ids : RAcquire(i)
    \/ \E i \in Ids : RPrep(i)
    \/ \E i \in Ids : RBuild(i)
    \/ \E i \in Ids : RStart(i)
    \/ \E i \in Ids : RSelect(i)
    \/ \E g \in Ids : ChildListen(g)
    \/ \E g \in Ids : ChildExit(g)
    \/ \E g \in Ids : Reap(g)
    \/ \E g \in Ids : ProbeOK(g)
    \/ \E s \in Stoppers : StopWatch(s)
    \/ \E s \in Stoppers : StopDead(s)
    \/ \E s \in Stoppers : StopGrace(s)
    \/ \E s \in Stoppers : StopKilled(s)

LiveNext ==
    \/ LiveStep
    \/ WatcherError
    \/ SdSignal
    \/ SdLockW
    \/ SdStop
    \/ SdExit
    \/ \E h \in LiveHandlers : HStart(h)
    \/ \E name \in EventNames, op \in EventOps : ntrig = 1 /\ FsEvent(name, op)

\* the steps of one request handler
HandlerSteps(h) == HRLock(h) \/ HSpin(h) \/ HWake(h) \/ HServe(h) \/ HReturn(h)

\* the steps of trigger i, its timer goroutine and its rebuild execution
RebuilderSteps(i) ==
    \/ TrigRead(i) \/ TrigArm(i)
    \/ GStart(i) \/ GRecv(i) \/ GStop(i) \/ GNil(i)
    \/ RLockW(i) \/ RAcquire(i) \/ RPrep(i) \/ RBuild(i) \/ RStart(i) \/ RSelect(i)

\* the steps of the goroutine stopRunningService starts
StopperSteps(s) == StopWatch(s) \/ StopDead(s) \/ StopGrace(s) \/ StopKilled(s)

\* a process that was sent SIGKILL ends
KilledExit(g) == child[g].sig = "kill" /\ ChildExit(g)

\* the shutdown goroutine once the signal has arrived
ShutdownSteps == SdLockW \/ SdStop \/ SdExit

LiveSpec ==
    /\ Init /\ [][LiveNext]_vars
    /\ \A h \in LiveHandlers : WF_vars(HandlerSteps(h))
    /\ \A i \in Ids : WF_vars(RebuilderSteps(i))
    /\ \A s \in Stoppers : WF_vars(StopperSteps(s))
    /\ \A g \in Ids : WF_vars(Reap(g)) /\ WF_vars(KilledExit(g))
    /\ \A t \in Ids : WF_vars(TimerFire(t))
    /\ WF_vars(TickStep)
    /\ WF_vars(ShutdownSteps)

\* LiveSpec where, in addition, a probe loop that keeps getting a 2xx
\* answer sends on listeningCh and ends
ProbeSpec ==
    /\ LiveSpec
    /\ \A g \in Ids : WF_vars(ProbeOK(g))

\* ChainSpec where the scheduler runs every goroutine that can run, timers
\* fire, the clock advances and a killed process ends; the changes, the
\* shutdown signal and a watcher error may or may not come
ChainLiveSpec ==
    /\ ChainSpec
    /\ \A i \in Ids : WF_vars(RebuilderSteps(i)) /\ WF_vars(TrigReset(i))
    /\ \A s \in Stoppers : WF_vars(StopperSteps(s))
    /\ \A g \in Ids : WF_vars(Reap(g)) /\ WF_vars(KilledExit(g))
    /\ \A t \in Ids : WF_vars(TimerFire(t))
    /\ WF_vars(TickStep)
    /\ WF_vars(ShutdownSteps)

\* =============================================================== properties
\* rebuild execution i is between proxyLock.Lock() and its deferred Unlock
InRebuild(i) == gpc[i] \in {"r_prep", "r_build", "r_wait", "r_select"}

\* the shutdown sequence is past proxyLock.Lock()
InShutdown == sdpc = "waitgroup"

\* handler h is past proxyLock.RLock() with builtOnce seen true, or has
\* just taken the read lock
PastGate(h) == hpc[h] \in {"held", "served"}

\* handler h has been answered by a child process
ForwardedOK(h) ==
    /\ hpc[h] = "served"
    /\ resp[h].kind = "proxied"
    /\ resp[h].status = 200

\* handler h has been answered with errorResponse text
AnsweredError(h, text) ==
    /\ resp[h].kind = "error"
    /\ resp[h].status = 502
    /\ resp[h].body = text

\* C1: a request that starts after the watcher delivered a relevant change
\* is never forwarded to a child built before that change (hreq.ver counts
\* the relevant changes delivered when the request started, resp.ver the
\* changes that were in the source the answering child was built from)
C1_NoStaleForward ==
    \A h \in Handlers : ForwardedOK(h) => resp[h].ver >= hreq[h].ver

\* C2: while a rebuild or the shutdown sequence holds proxyLock, no request
\* handler is past the gate; SIGTERM goes to the child only in such a state
C2_GateExcludes ==
    ((\E i \in Ids : InRebuild(i)) \/ InShutdown \/ lockHeld)
        => /\ \A h \in Handlers : ~PastGate(h)
           /\ NoLeases

\* both handlers are forwarding together and the rebuild of the change waits
\* in Lock for them
C2_Witness ==
    /\ \A h \in Handlers : ForwardedOK(h)
    /\ \E i \in Ids : gpc[i] = "r_drain"

\* C3: no request is answered, by the child or with an error, before the
\* first rebuild has returned, and builtOnce is true at every answer; a
\* request that arrives before the first build is answered unless the
\* process ends first
C3_FirstRequestGated ==
    /\ [](\A h \in Handlers : hpc[h] = "served" => builtOnce /\ rebuildsDone)
    /\ \A h \in LiveHandlers :
          (hpc[h] = "rlock" /\ ~builtOnce) ~> (hpc[h] = "served" \/ ~Running)

\* a request that came before the first build, slept and was answered by
\* the first child, with no file change so far
C3_Witness ==
    \E h \in Handlers : ForwardedOK(h) /\ hreq[h].spun /\ srcVer = 0

\* C4: rebuild executions and the shutdown sequence are never inside their
\* locked sections together
C4_OneWriter ==
    Cardinality({ i \in Ids : InRebuild(i) }) + (IF InShutdown THEN 1 ELSE 0) <= 1

\* one rebuild is in its locked section while another rebuild and the
\* shutdown sequence are about to call Lock
C4_Witness ==
    /\ \E i, j \in Ids : i # j /\ InRebuild(i) /\ gpc[j] = "r_lock"
    /\ sdpc = "lock"

\* C5: at most one child process is alive
C5_OneChild ==
    Cardinality({ g \in Ids : Alive(g) }) <= 1

\* the third child runs after the first one is gone, the build in between
\* having failed
C5_Witness ==
    /\ Alive(3)
    /\ child[2].state = "none"
    /\ Gone(1)

\* C6: after go build exited non-zero, and until the next rebuild, every
\* answer has status 502 and the build output as body
C6_BuildFailure502 ==
    \A h \in Handlers :
        (hpc[h] = "served" /\ lastOutcome = "buildfail")
            => /\ resp[h].status = 502
               /\ resp[h].body.bytes = lastOutput

\* rebuild i returns from its select, taking case c
SelectReturns(i) == gpc[i] = "r_select" /\ gpc'[i] = "done"

\* C7: when rebuild returns from the select with only the exit of the new
\* child to receive, the process keeps running and errorResponse is the
\* boot-exit text; until the next rebuild every answer is 502 with that text
C7_BootExit ==
    /\ [](lastOutcome = "bootexit" =>
            /\ errorResponse = BootExitText
            /\ \A h \in Handlers :
                 hpc[h] = "served" => AnsweredError(h, BootExitText))
    /\ [][\A i \in Ids :
            (SelectReturns(i) /\ exitCh[i] /\ ~listeningCh[i]) =>
                /\ parent' = "running"
                /\ lastOutcome' = "bootexit"
                /\ errorResponse' = BootExitText]_vars

\* a request answered with the boot-exit text after the child exited early
C7_Witness ==
    /\ lastOutcome = "bootexit"
    /\ \E h \in Handlers : hpc[h] = "served" /\ AnsweredError(h, BootExitText)

\* C8: when rebuild returns from the select with neither a probe success
\* nor an exit to receive, the process keeps running and errorResponse is
\* the boot-timeout text; until the next rebuild every answer is 502 with
\* that text
C8_BootTimeout ==
    /\ [](lastOutcome = "timeout" =>
            /\ errorResponse = BootTimeoutText
            /\ \A h \in Handlers :
                 hpc[h] = "served" => AnsweredError(h, BootTimeoutText))
    /\ [][\A i \in Ids :
            (SelectReturns(i) /\ ~exitCh[i] /\ ~listeningCh[i]) =>
                /\ parent' = "running"
                /\ lastOutcome' = "timeout"
                /\ errorResponse' = BootTimeoutText]_vars

\* a request answered with the boot-timeout text while the child that never
\* answered its probe is still there
C8_Witness ==
    /\ lastOutcome = "timeout"
    /\ \E h \in Handlers : hpc[h] = "served" /\ AnsweredError(h, BootTimeoutText)
    /\ \E g \in Ids : child[g].state = "booting"

\* the last rebuild ended in a build failure, a boot exit or a boot timeout
Failed == lastOutcome \in {"buildfail", "bootexit", "timeout"}

\* C9: a relevant change delivered in Failed leads to a new rebuild unless
\* the process ends first; and after a rebuild whose build and health check succeeded, whatever the
\* rebuild before left, errorResponse is nil and every answer comes through
\* the proxy, from the child that rebuild started when a child answers
C9_Recovery ==
    /\ (Failed /\ \E i \in Ids : gpc[i] = "t_read")
          ~> ((\E i \in Ids : InRebuild(i)) \/ ~Running)
    /\ [](lastOutcome = "ready" =>
            /\ errorResponse.isNil
            /\ \A h \in Handlers :
                 hpc[h] = "served" =>
                    /\ resp[h].kind = "proxied"
                    /\ resp[h].status = 200 => resp[h].gen = service)

\* the first build failed, so no first child; after the change the second
\* rebuild succeeded and its child answers a request
C9_Witness ==
    /\ lastOutcome = "ready"
    /\ service = 2
    /\ child[1].state = "none"
    /\ \E h \in Handlers : ForwardedOK(h) /\ resp[h].gen = 2

\* C10: a request issued one debounce interval after a relevant write made
\* in Ready is never answered by the child that ran before the write
C10_HotReload ==
    \A h \in Handlers :
        (ForwardedOK(h) /\ hreq[h].late) => resp[h].ver >= hreq[h].ver

\* C11: the change signals of one burst, each less than the debounce
\* interval after the one before and none during a rebuild, call rebuild
\* once: of the timer goroutines the burst started, at most one has called
\* rebuild
C11_OneRebuildPerBurst ==
    Cardinality({ i \in Ids : i > 1 /\ Called(i) }) <= 1

\* the ways the process ends on an error it reports
FatalCauses == {"fatal_list", "fatal_watch", "fatal_build", "fatal_start", "fatal_watcher"}

\* C12: once the signal has arrived the process ends, with exit code 0
\* unless a fatal error ends it first; it exits 0 only from the shutdown
\* sequence holding proxyLock with no handler inside, every child exited and
\* reaped; while the sequence waits, a current child that is still alive has
\* been sent SIGTERM
C12_GracefulShutdown ==
    /\ (sdpc # "wait") ~> (parent = "exit0" \/ parent \in FatalCauses)
    /\ [](sdpc = "waitgroup" /\ service # 0 /\ Alive(service)
            => child[service].sig \in {"term", "kill"})
    /\ [][parent' = "exit0" =>
            /\ sdpc = "waitgroup"
            /\ lockOwner = SdOwner /\ lockHeld /\ NoLeases
            /\ \A h \in Handlers : ~PastGate(h)
            /\ waiter = 0
            /\ \A g \in Ids : ~Alive(g)]_vars

\* the process has exited 0 and the child it had is gone
C12_Witness ==
    /\ parent = "exit0"
    /\ \E g \in Ids : Gone(g)

\* C13: when the process has ended through the shutdown sequence, with
\* exit code 0, the temporary executable has been removed
C13_TempFileRemoved ==
    parent = "exit0" => tmpFile = "removed"

\* C14: a child that lives while rebuild builds or waits for it has been
\* sent SIGTERM; while the process runs, a child that was sent SIGTERM by stop
\* exits and is reaped, after the SIGKILL of the grace period if need be;
\* waiter.Wait() in rebuild and in the shutdown sequence returns
C14_StopEndsChild ==
    /\ [](\A i \in Ids : gpc[i] \in {"r_build", "r_wait"} =>
            \A g \in Ids : Alive(g) => child[g].sig \in {"term", "kill"})
    /\ \A g \in Ids :
          (Alive(g) /\ child[g].sig = "term") ~> (child[g].state = "reaped" \/ ~Running)
    /\ \A i \in Ids : (gpc[i] = "r_wait") ~> (gpc[i] # "r_wait")
    /\ (sdpc = "waitgroup") ~> (sdpc # "waitgroup")

\* the second rebuild waits for the first child, which did not exit on
\* SIGTERM and has been sent SIGKILL
C14_Witness ==
    /\ gpc[2] = "r_wait"
    /\ Alive(1)
    /\ child[1].sig = "kill"


\* C15: while lrt runs, no step removes a directory from watchedDir or
\* takes back a watcher.Add, and watcher.Add was called exactly once for
\* every directory of watchedDir and never for another one, although go
\* list and go build -v name the same directories again in every rebuild.
C15_WatchSetGrows ==
    /\ [](\A d \in Dirs : watcher[d] = IF d \in watched THEN 1 ELSE 0)
    /\ [][parent' = "running" =>
            /\ watched \subseteq watched'
            /\ \A d \in Dirs : watcher'[d] >= watcher[d]]_vars

\* the second rebuild has built, and go build -v has named again the
\* directories the first rebuild subscribed to
C15_Witness ==
    /\ gpc[2] = "r_wait"
    /\ rebuildsDone
    /\ watched = Dirs
    /\ watcher["app"] = 1


\* C16 as stated: the child of every generation is started with a port
\* drawn for that generation.
C16_PortRedrawn ==
    \A g \in Ids : Alive(g) => child[g].port = generateServiceURL(g).port

\* C16 amended: the port is drawn once, when lrt starts; the child of every
\* generation is started with PORT set to that one port, the port of
\* serviceURL, where the proxy forwards and the health probe asks.
C16_OnePortPerRun ==
    \A g \in Ids : Alive(g) =>
        /\ child[g].port = generateServiceURL(0).port
        /\ child[g].port = serviceURL.port

\* the second generation runs on the port of the first
C16_Witness ==
    /\ Gone(1)
    /\ child[2].state = "listening"
    /\ child[2].port = serviceURL.port
    /\ lastOutcome = "ready"


\* invocation i of rebuild is pending: its timer goroutine waits for the
\* timer or is about to call rebuild, or its rebuild waits for proxyLock
Pending(i) == gpc[i] \in {"g_start", "g_wait", "g_stop", "g_nil", "r_lock", "r_drain"}

\* C17: when change signals arrive only while a rebuild is executing, one
\* after the other, at most one invocation of rebuild is pending at any
\* moment (every pending invocation goes on to run a rebuild once the
\* current one has completed, so this bounds the rebuilds that follow).
C17_OnePending ==
    Cardinality({ i \in Ids : Pending(i) }) <= 1


\* C18: whenever a handler holds proxyLock shared, errorResponse is nil and
\* a rebuild has completed, the last completed rebuild ended Ready: its
\* build succeeded and its child answered the health probe.
C18_EmptyErrorMeansReady ==
    \A h \in Handlers :
        (leases[h] > 0 /\ errorResponse.isNil /\ rebuildsDone) => lastOutcome = "ready"

\* C19: a handler that saw builtOnce true and errorResponse nil under its
\* lease, and so handed the request to the reverse proxy, did so after a
\* rebuild whose build succeeded and whose child answered the health probe,
\* whatever the build printed.
C19_ForwardOnlyToHealthy ==
    \A h \in Handlers :
        (hpc[h] = "served" /\ resp[h].kind = "proxied") => lastOutcome = "ready"


\* the error body the last completed rebuild left: its build output, or the
\* text of the select case it took
ErrorOfLastRebuild ==
    CASE lastOutcome = "buildfail" -> Bytes(lastOutput)
      [] lastOutcome = "bootexit" -> BootExitText
      [] lastOutcome = "timeout" -> BootTimeoutText
      [] OTHER -> Nil

\* C20: when a rebuild is about to invoke go build, errorResponse is nil,
\* builtOnce is true and every living child has been sent SIGTERM; while
\* lrt runs, errorResponse is written only by a rebuild that holds
\* proxyLock: to nil before the build, to the build output when its build
\* fails, to the boot-exit or boot-timeout text when its select returns;
\* and a request answered with an error body got the body of the last
\* completed rebuild, which failed.
C20_RebuildOrdering ==
    /\ [](\A i \in Ids : gpc[i] = "r_build" =>
            /\ errorResponse.isNil
            /\ builtOnce
            /\ \A g \in Ids : Alive(g) => child[g].sig \in {"term", "kill"})
    /\ [](\A h \in Handlers :
            (hpc[h] = "served" /\ resp[h].kind = "error") =>
                /\ lastOutcome \in {"buildfail", "bootexit", "timeout"}
                /\ resp[h].body = ErrorOfLastRebuild
                /\ resp[h].body = errorResponse)
    /\ [][(parent' = "running" /\ errorResponse' # errorResponse) =>
            \E i \in Ids :
                /\ lockOwner = i /\ lockHeld
                /\ \/ gpc[i] = "r_prep" /\ gpc'[i] = "r_build" /\ errorResponse'.isNil
                   \/ /\ gpc[i] = "r_build" /\ gpc'[i] = "done"
                      /\ lastOutcome' = "buildfail"
                      /\ errorResponse' = Bytes(lastOutput')
                   \/ /\ SelectReturns(i)
                      /\ lastOutcome' \in {"bootexit", "timeout"}
                      /\ errorResponse' = ErrorOfLastRebuild']_vars

\* the first rebuild failed in its build, the second ran into the boot
\* timeout, and a request is answered with the timeout text
C20_Witness ==
    /\ gpc[1] = "done" /\ child[1].state = "none"
    /\ gpc[2] = "done" /\ lastOutcome = "timeout"
    /\ \E h \in Handlers : hpc[h] = "served" /\ AnsweredError(h, BootTimeoutText)


\* the last completed rebuild ended in a build failure, a boot exit or a
\* boot timeout
PreviousFailed == lastOutcome \in {"buildfail", "bootexit", "timeout"}

\* C21: a rebuild that has taken proxyLock and is about to decide on the
\* full dependency listing runs go list if and only if no rebuild has
\* completed before or the last completed rebuild ended Failed.
C21_FullListIffFirstOrFailed ==
    \A i \in Ids : gpc[i] = "r_prep" =>
        (NeedsFullList <=> (~rebuildsDone \/ PreviousFailed))


\* the event in watcher.Events names a Go source file that is not a test
\* file and is more than a change of permissions
IsSourceChange ==
    LET n == events.name
    IN  /\ Len(n) >= 1 /\ n[Len(n)] = ".go"
        /\ ~(Len(n) >= 2 /\ n[Len(n) - 1] = "_test")
        /\ events.op \ {"Chmod"} # {}

\* C22: the step that receives an event from watcher.Events calls the
\* debounced trigger (one more call, a new goroutine about to read the
\* timer) if the name ends in .go, does not end in _test.go and the
\* operation is not Chmod alone; for every other event it changes nothing
\* but the channel.
C22_EventFilter ==
    [][(events # NoEvent /\ events' = NoEvent /\ parent' = "running") =>
          IF IsSourceChange
          THEN /\ ntrig' = ntrig + 1
               /\ gpc' = [gpc EXCEPT ![ntrig + 1] = "t_read"]
               /\ UNCHANGED << lockVars, ctlVars, childVars, timer, tm, gseen,
                               stopVars, sdpc, handlerVars >>
          ELSE UNCHANGED << lockVars, ctlVars, childVars, debVars, gpc, stopVars,
                            sdpc, handlerVars, timeVars, ghostVars >>]_vars

\* the first source change has been received and has started a trigger
\* call
C22_Witness ==
    /\ ntrig = 2
    /\ gpc[2] = "t_read"
    /\ events = NoEvent
    /\ srcVer = 1


\* the step writes builtOnce, errorResponse, service or watchedDir
WritesShared ==
    \/ builtOnce' # builtOnce
    \/ errorResponse' # errorResponse
    \/ service' # service
    \/ watched' # watched

\* C23: while lrt runs, a step that writes builtOnce, errorResponse, service
\* or watchedDir is a step of a rebuild that holds proxyLock exclusively (no
\* handler has a lease and no handler moves in that step), and a handler
\* reads builtOnce and errorResponse only in a step it enters with a lease
\* and with no writer holding the lock.
C23_WritesUnderGate ==
    /\ [][(parent' = "running" /\ WritesShared) =>
            \E i \in Ids :
                /\ InRebuild(i)
                /\ gpc'[i] # gpc[i]
                /\ \A j \in Ids \ {i} : gpc'[j] = gpc[j]
                /\ lockOwner = i /\ lockHeld /\ NoLeases
                /\ hpc' = hpc]_vars
    /\ [][\A h \in Handlers :
            (hpc[h] = "held" /\ hpc'[h] # "held" /\ parent' = "running") =>
                /\ leases[h] > 0
                /\ ~lockHeld]_vars

\* a rebuild that holds the lock has replaced the child handle while a
\* request waits for a lease
C23_Witness ==
    /\ gpc[2] = "r_select"
    /\ service = 2
    /\ lockHeld
    /\ \E h \in Handlers : hpc[h] = "rlock"


\* C24: once rebuild g has returned, the probe goroutine it started ends
\* (or lrt exits), and once its child has exited the goroutine that waits
\* for the child ends.
C24_NoLeakedGoroutine ==
    /\ \A g \in Ids : (gpc[g] = "done") ~> (probe[g] = "none" \/ ~Running)
    /\ \A g \in Ids : (gpc[g] = "done" /\ child[g].state = "exited")
                          ~> (child[g].state = "reaped" \/ ~Running)


\* C25: at most one time.Timer of the debouncer is armed, and at most one
\* goroutine waits on a timer to call f, whatever the interleaving of the
\* trigger calls and the timer goroutine.
C25_OneArmedTimer ==
    /\ Cardinality({ t \in Ids : tm[t].armed }) <= 1
    /\ Cardinality({ i \in Ids : gpc[i] \in {"g_start", "g_wait"} }) <= 1


\* C26: SIGKILL goes only to a child that stopRunningService has sent
\* SIGTERM, and a stop goroutine waits only for such a child (or for one
\* that is gone already): never for or to the child of a later generation,
\* which no stop has been called for.
C26_KillOnlyStopped ==
    /\ [][\A g \in Ids :
            (parent' = "running" /\ child'[g].sig = "kill" /\ child[g].sig # "kill")
                => child[g].sig = "term"]_vars
    /\ [](\A s \in Stoppers :
            (spc[s] \in {"wait", "killed"} /\ starget[s] # 0 /\ Alive(starget[s]))
                => child[starget[s]].sig \in {"term", "kill"})


\* lrt has ended in a way that is not the debouncer's doing: the shutdown
\* signal, or a fatal error of the toolchain, the child start or the watcher
EndedOtherwise == parent = "exit0" \/ parent \in FatalCauses

\* C27: every relevant change delivered by the watcher is followed by a go
\* build that reads the source with that change in it, unless lrt is shut
\* down or ends on a fatal error first.
C27_NoSignalLost ==
    \A k \in 1..MaxEvents :
        (srcVer = k /\ builtVer < k) ~> (builtVer >= k \/ EndedOtherwise)


\* C28: the select that runs into the boot timeout sends the child no
\* signal and leaves the wait group alone; until the next rebuild clears it,
\* errorResponse is the boot-timeout text and requests are answered with it,
\* also when the child has begun to listen, and a living child is counted
\* by the wait group; in that time the child is sent a signal only once the
\* shutdown sequence has called stopRunningService; and a rebuild starts
\* its child only when no child lives.
C28_TimedOutChildKept ==
    /\ [][\A i \in Ids :
            (SelectReturns(i) /\ lastOutcome' = "timeout") =>
                /\ child' = child
                /\ waiter' = waiter
                /\ service' = i]_vars
    /\ [](lastOutcome = "timeout" =>
            /\ errorResponse = BootTimeoutText
            /\ service # 0
            /\ Alive(service) => waiter >= 1
            /\ \A h \in Handlers :
                 hpc[h] = "served" => AnsweredError(h, BootTimeoutText))
    /\ [][(lastOutcome = "timeout" /\ lastOutcome' = "timeout") =>
            \/ \A g \in Ids : child'[g].sig = child[g].sig \/ Gone(g)'
            \/ sdpc' = "waitgroup"]_vars
    /\ [][\A i \in Ids :
            (gpc[i] = "r_wait" /\ gpc'[i] = "r_select") =>
                \A g \in Ids : ~Alive(g)]_vars


\* C29: when lrt has exited, by the shutdown sequence or on a fatal error of
\* a rebuild or of the watcher, no child it started is still running.
C29_NoOrphan ==
    (parent = "exit0" \/ parent \in FatalCauses) => \A g \in Ids : ~Alive(g)


\* C30: no trigger call ends lrt by calling Reset on a nil timer, whatever
\* the interleaving with the timer goroutine that sets timer to nil.
C30_NoNilReset == parent # "panic_reset"

\* C31: a handler holds exactly one shared lease whenever it reads
\* builtOnce or errorResponse or forwards the request, holds none while it
\* waits for the lock, sleeps or after it has returned, however often it
\* went round the spin loop; and a rebuild that waits for the readers to
\* leave before the first build gets the lock unless the process ends
C31_LeaseBalance ==
    /\ [](\A h \in Handlers :
            /\ PastGate(h) => leases[h] = 1
            /\ hpc[h] \in {"idle", "rlock", "sleep"} => leases[h] = 0)
    /\ \A i \in Ids :
          (gpc[i] = "r_drain" /\ ~builtOnce) ~> (gpc[i] # "r_drain" \/ ~Running)

\* a handler that has been round the spin loop sleeps without a lease while
\* the first rebuild holds the lock exclusively
C31_Witness ==
    \E h \in Handlers, i \in Ids :
        /\ hpc[h] = "sleep" /\ hreq[h].spun /\ leases[h] = 0
        /\ ~builtOnce /\ InRebuild(i)

====
